---- MODULE Spec2Model ----
(***************************************************************************)
(* pg_sasl_prepare.c: SASLprep (NFKC-style) decomposition and canonical    *)
(* ordering of an int4 array of packed UTF-8 code points, together with    *)
(* the utf8_to_array / array_to_utf8 conversions.                          *)
(*                                                                         *)
(* Every C function is unrolled into the steps of its loops; the recursion *)
(* of get_decomposed_size and decompose_code runs on an explicit call      *)
(* stack.  Sequences are 1-based: C index k is TLA+ index k + 1.           *)
(***************************************************************************)
EXTENDS Integers, Sequences, FiniteSets, TLC

VARIABLES
    conv,        \* which conversion table utf8_table.h was generated as, never written
    encoding,    \* GetDatabaseEncoding()
    orig,        \* argument of the first call of the SQL expression evaluated
    input,       \* argument of the running function (int4[] or C string)
    result,      \* result buffer of the running function (int4[] or char *)
    allocated,   \* whether the running function has allocated its result
    size,        \* local "size" of the running function
    count,       \* local "count" of the running function
    utf,         \* utf8_to_array: offset of pointer "utf" into the C string
    i,           \* array_to_utf8: loop index "i"
    stack,       \* frames of get_decomposed_size / decompose_code, innermost last
    pc,          \* position of the running function
    round,       \* 1: first application, 2: the function applied to its own output
    first,       \* result of the first application
    decomposed   \* result_ptr as it stands when the fill pass ends (line 223)

vars == <<conv, encoding, orig, input, result, allocated, size, count, utf, i,
          stack, pc, round, first, decomposed>>

(***************************************************************************)
(* Bounds of the model.                                                    *)
(***************************************************************************)
\* longest int4[] handed to pg_sasl_prepare
MaxLen == 3
\* longest byte string handed to utf8_to_array
MaxBytes == 4
\* frames the machine stack holds before the process overflows it
StackLimit == 6

(***************************************************************************)
(* 32-bit words.  An int4 array element and a uint32 local hold the same   *)
(* 32 bits, and the casts between int32 and uint32 keep them; a word is    *)
(* written here as its four bytes, most significant first, so that         *)
(* <<0, 0, 195, 133>> is 0x0000C385.                                       *)
(***************************************************************************)
Byte == 0..255

Word(b3, b2, b1, b0) == <<b3, b2, b1, b0>>

Zero == Word(0, 0, 0, 0)

\* v1 > v2 for two uint32
UintGreater(v1, v2) ==
    \E k \in 1..4 : /\ v1[k] > v2[k]
                    /\ \A j \in 1..(k - 1) : v1[j] = v2[j]

(***************************************************************************)
(* The conversion table.  utf8_table.h is generated data: rows             *)
(* {utf, class, codes[]} sorted by utf, codes zero-terminated.  The rows   *)
(* below are the Unicode data of ten code points, keyed by their packed    *)
(* UTF-8 bytes.                                                            *)
(***************************************************************************)
\* lengthof(SASLPrepConv[0].codes)
MaxCodes == 4

Row(u, c, d) == [utf |-> u, class |-> c, codes |-> d]

LatinA      == Word(0, 0, 0, \H41)            \* U+0041 A
ARing       == Word(0, 0, \HC3, \H85)         \* U+00C5 A with ring above
ARingAcute  == Word(0, 0, \HC7, \HBA)         \* U+01FA A with ring above and acute
Acute       == Word(0, 0, \HCC, \H81)         \* U+0301 combining acute
RingAbove   == Word(0, 0, \HCC, \H8A)         \* U+030A combining ring above
DotBelow    == Word(0, 0, \HCC, \HA3)         \* U+0323 combining dot below
ADotBelow   == Word(0, \HE1, \HBA, \HA0)      \* U+1EA0 A with dot below
Prime       == Word(0, \HE2, \H80, \HB2)      \* U+2032 prime
QuadPrime   == Word(0, \HE2, \H81, \H97)      \* U+2057 quadruple prime
MusicalStem == Word(\HF0, \H9D, \H85, \HA5)   \* U+1D165 musical symbol combining stem

SASLPrepConv ==
    << Row(LatinA,      0,   <<Zero, Zero, Zero, Zero>>),
       Row(ARing,       0,   <<LatinA, RingAbove, Zero, Zero>>),
       Row(ARingAcute,  0,   <<ARing, Acute, Zero, Zero>>),
       Row(Acute,       230, <<Zero, Zero, Zero, Zero>>),
       Row(RingAbove,   230, <<Zero, Zero, Zero, Zero>>),
       Row(DotBelow,    220, <<Zero, Zero, Zero, Zero>>),
       Row(ADotBelow,   0,   <<LatinA, DotBelow, Zero, Zero>>),
       Row(Prime,       0,   <<Zero, Zero, Zero, Zero>>),
       Row(QuadPrime,   0,   <<Prime, Prime, Prime, Prime>>),
       Row(MusicalStem, 216, <<Zero, Zero, Zero, Zero>>) >>

\* The same rows with a cycle: U+00C5 -> U+01FA -> U+00C5.
IllFormedConv ==
    [SASLPrepConv EXCEPT ![2] = Row(ARing, 0, <<LatinA, ARingAcute, Zero, Zero>>)]

\* the table compiled in
table == IF conv = "IllFormedConv" THEN IllFormedConv ELSE SASLPrepConv

\* entry of a NULL pointer
NullEntry == Row(Zero, 0, <<Zero, Zero, Zero, Zero>>)

(***************************************************************************)
(* Table lookup.                                                           *)
(***************************************************************************)
\* conv_compare(&v1, &table[k]): both sides compared as uint32
conv_compare(v1, k) ==
    LET v2 == table[k].utf
    IN  IF UintGreater(v1, v2) THEN 1 ELSE IF v1 = v2 THEN 0 ELSE -1

\* bsearch over table[lo..hi]; 0 when no row matches
RECURSIVE bsearch(_, _, _)
bsearch(key, lo, hi) ==
    IF lo > hi THEN 0
    ELSE LET mid == (lo + hi) \div 2
             c   == conv_compare(key, mid)
         IN  IF c = 0 THEN mid
             ELSE IF c < 0 THEN bsearch(key, lo, mid - 1)
             ELSE bsearch(key, mid + 1, hi)

\* get_code_entry(code); the Assert is compiled out of a production build
get_code_entry(code) ==
    LET k == bsearch(code, 1, Len(table))
    IN  IF k = 0 THEN NullEntry ELSE table[k]

\* new_intArrayType(num): palloc0'ed int array of num elements
new_intArrayType(num) == [k \in 1..num |-> Zero]

(***************************************************************************)
(* get_decomposed_size and decompose_code, one frame step at a time.  A    *)
(* frame is [code, i, size]: the argument, the loop index and the local    *)
(* "size" (unused by decompose_code).                                      *)
(***************************************************************************)
Frame(code) == [code |-> code, i |-> 0, size |-> 0]

Top == stack[Len(stack)]

Pop == SubSeq(stack, 1, Len(stack) - 1)

\* the emptiness test reading the last slot of codes[] instead of the first
LastSlotEmpty(entry) == entry.codes[MaxCodes] = Zero

\* line 115: entry->codes[0] == 0x0 in get_decomposed_size
SizeNoDecomposition(entry) == entry.codes[1] = Zero

\* line 153: entry->codes[0] == 0x0 in decompose_code
FillNoDecomposition(entry) == entry.codes[1] = Zero

\* the loop of lines 121-129 / 165-173 has another code to recurse into
MoreCodes(entry, k) == k < MaxCodes /\ entry.codes[k + 1] # Zero

\* the call at lines 128 / 172 / 208 / 222: push a frame, or overflow the stack
Call(code) ==
    IF Len(stack) >= StackLimit
    THEN /\ pc' = "stack_overflow"
         /\ UNCHANGED stack
    ELSE /\ stack' = Append(stack, Frame(code))
         /\ UNCHANGED pc

\* return of get_decomposed_size with value v: "size += ..." in the caller
SizeReturn(v) ==
    IF Len(stack) = 1
    THEN /\ stack' = <<>>
         /\ size' = size + v
         /\ count' = count + 1
    ELSE /\ stack' = [Pop EXCEPT ![Len(stack) - 1] =
                          [@ EXCEPT !.size = @ + v, !.i = @ + 1]]
         /\ UNCHANGED <<size, count>>

\* return of decompose_code: the caller's loop goes on
FillReturn ==
    IF Len(stack) = 1
    THEN /\ stack' = <<>>
         /\ count' = count + 1
    ELSE /\ stack' = [Pop EXCEPT ![Len(stack) - 1] = [@ EXCEPT !.i = @ + 1]]
         /\ UNCHANGED count

(***************************************************************************)
(* pg_sasl_prepare.                                                        *)
(***************************************************************************)
\* lines 200-209: the size loop calls get_decomposed_size(input_ptr[count])
pg_sasl_prepare_size_loop ==
    /\ pc = "size_pass"
    /\ stack = <<>>
    /\ count < Len(input)
    /\ Call(input[count + 1])
    /\ UNCHANGED <<conv, encoding, orig, input, result, allocated, size, count,
                   utf, i, round, first, decomposed>>

\* lines 105-132, one step of the innermost frame
get_decomposed_size ==
    /\ pc = "size_pass"
    /\ stack # <<>>
    /\ LET entry == get_code_entry(Top.code)
       IN  IF SizeNoDecomposition(entry)
           THEN SizeReturn(1) /\ UNCHANGED pc
           ELSE IF MoreCodes(entry, Top.i)
           THEN Call(entry.codes[Top.i + 1]) /\ UNCHANGED <<size, count>>
           ELSE SizeReturn(Top.size) /\ UNCHANGED pc
    /\ UNCHANGED <<conv, encoding, orig, input, result, allocated, utf, i,
                   round, first, decomposed>>

\* lines 215-217: allocate the result and restart the cursor
pg_sasl_prepare_alloc ==
    /\ pc = "size_pass"
    /\ stack = <<>>
    /\ count >= Len(input)
    /\ result' = new_intArrayType(size)
    /\ allocated' = TRUE
    /\ size' = 0
    /\ count' = 0
    /\ pc' = "fill_pass"
    /\ UNCHANGED <<conv, encoding, orig, input, utf, i, stack, round, first,
                   decomposed>>

\* lines 218-223: the fill loop calls decompose_code(input_ptr[count], ...)
pg_sasl_prepare_fill_loop ==
    /\ pc = "fill_pass"
    /\ stack = <<>>
    /\ count < Len(input)
    /\ Call(input[count + 1])
    /\ UNCHANGED <<conv, encoding, orig, input, result, allocated, size, count,
                   utf, i, round, first, decomposed>>

\* lines 141-174, one step of the innermost frame; "size" is *current
decompose_code ==
    /\ pc = "fill_pass"
    /\ stack # <<>>
    /\ LET entry == get_code_entry(Top.code)
       IN  IF FillNoDecomposition(entry)
           THEN IF size < Len(result)
                THEN /\ result' = [result EXCEPT ![size + 1] = Top.code]
                     /\ size' = size + 1
                     /\ FillReturn
                     /\ UNCHANGED pc
                ELSE \* res[*current] lies past the palloc'ed array
                     /\ pc' = "heap_overflow"
                     /\ UNCHANGED <<result, size, count, stack>>
           ELSE IF MoreCodes(entry, Top.i)
           THEN Call(entry.codes[Top.i + 1]) /\ UNCHANGED <<result, size, count>>
           ELSE FillReturn /\ UNCHANGED <<result, size, pc>>
    /\ UNCHANGED <<conv, encoding, orig, input, allocated, utf, i, round, first,
                   decomposed>>

\* line 229, "count = 1": the fill loop is over, the ordering loop starts
pg_sasl_prepare_fill_done ==
    /\ pc = "fill_pass"
    /\ stack = <<>>
    /\ count >= Len(input)
    /\ count' = 1
    /\ decomposed' = result
    /\ pc' = "order_pass"
    /\ UNCHANGED <<conv, encoding, orig, input, result, allocated, size, utf, i,
                   stack, round, first>>

\* the exchange test without the starter test of line 245
ExchangeableStarters(prevEntry, nextEntry) ==
    ~(prevEntry.class <= nextEntry.class)

\* the exchange test with "<" for "<=" at line 248
ExchangeableEqual(prevEntry, nextEntry) ==
    /\ ~(nextEntry.class = 0 \/ prevEntry.class = 0)
    /\ ~(prevEntry.class < nextEntry.class)

\* the exchange test with the comparison of line 248 the other way round
ExchangeableReversed(prevEntry, nextEntry) ==
    /\ ~(nextEntry.class = 0 \/ prevEntry.class = 0)
    /\ ~(prevEntry.class >= nextEntry.class)

\* lines 245-249: the pair (prev, next) is exchanged
Exchangeable(prevEntry, nextEntry) ==
    /\ ~(nextEntry.class = 0 \/ prevEntry.class = 0)
    /\ ~(prevEntry.class <= nextEntry.class)

\* the loop going on after an exchange without stepping back
BacktrackNone(c) == c + 1

\* "count -= 2" without the test "count > 1"
BacktrackUnguarded(c) == (c - 2) + 1

\* lines 257-258 followed by the loop's count++
Backtrack(c) == (IF c > 1 THEN c - 2 ELSE c) + 1

\* lines 252-254
Swap(seq, c) == [seq EXCEPT ![c] = seq[c + 1], ![c + 1] = seq[c]]

\* lines 229-259: one iteration of the ordering loop at index count
pg_sasl_prepare_order ==
    /\ pc = "order_pass"
    /\ count < Len(result)
    /\ LET prevEntry == get_code_entry(result[count])
           nextEntry == get_code_entry(result[count + 1])
       IN  IF Exchangeable(prevEntry, nextEntry)
           THEN /\ result' = Swap(result, count)
                /\ count' = Backtrack(count)
           ELSE /\ count' = count + 1
                /\ UNCHANGED result
    /\ UNCHANGED <<conv, encoding, orig, input, allocated, size, utf, i, stack,
                   pc, round, first, decomposed>>

\* line 261: the loop condition fails, the array is returned
pg_sasl_prepare_return ==
    /\ pc = "order_pass"
    /\ count >= Len(result)
    /\ pc' = "done"
    /\ UNCHANGED <<conv, encoding, orig, input, result, allocated, size, count,
                   utf, i, stack, round, first, decomposed>>

\* pg_sasl_prepare(pg_sasl_prepare(x)): the returned array is the next argument
pg_sasl_prepare_again ==
    /\ pc = "done"
    /\ round = 1
    /\ round' = 2
    /\ first' = result
    /\ input' = result
    /\ result' = <<>>
    /\ allocated' = FALSE
    /\ size' = 0
    /\ count' = 0
    /\ decomposed' = <<>>
    /\ pc' = "size_pass"
    /\ UNCHANGED <<conv, encoding, orig, utf, i, stack>>

(***************************************************************************)
(* utf8_to_array.  The argument is a C string: the bytes of "input", then  *)
(* the terminator; what lies behind the terminator is not the string's.    *)
(***************************************************************************)
\* the byte at offset k of C string s; junk is the byte found past the terminator
Char(s, k, junk) ==
    IF k < Len(s) THEN s[k + 1] ELSE IF k = Len(s) THEN 0 ELSE junk

\* bytes the memory behind the terminator may hold
JunkBytes == {0, \H41, \H85, \HA3}

\* pg_utf_mblen(s) of mb/pg_wchar.h, from the lead byte c
pg_utf_mblen(c) ==
    IF c < \H80 THEN 1                       \* (c & 0x80) == 0
    ELSE IF c >= \HC0 /\ c <= \HDF THEN 2     \* (c & 0xe0) == 0xc0
    ELSE IF c >= \HE0 /\ c <= \HEF THEN 3     \* (c & 0xf0) == 0xe0
    ELSE IF c >= \HF0 /\ c <= \HF7 THEN 4     \* (c & 0xf8) == 0xf0
    ELSE 1

Continuation(a) == a >= \H80 /\ a <= \HBF

\* pg_utf8_islegal(source, length) of mb/pg_wchar.h, source at offset k of s
pg_utf8_islegal(s, k, length, junk) ==
    LET b0 == Char(s, k, junk)
        b1 == Char(s, k + 1, junk)
        b2 == Char(s, k + 2, junk)
        b3 == Char(s, k + 3, junk)
        second == IF b0 = \HE0 THEN b1 >= \HA0 /\ b1 <= \HBF
                  ELSE IF b0 = \HED THEN b1 >= \H80 /\ b1 <= \H9F
                  ELSE IF b0 = \HF0 THEN b1 >= \H90 /\ b1 <= \HBF
                  ELSE IF b0 = \HF4 THEN b1 >= \H80 /\ b1 <= \H8F
                  ELSE Continuation(b1)
        lead == ~(b0 >= \H80 /\ b0 < \HC2) /\ ~(b0 > \HF4)
    IN  /\ length \in 1..4
        /\ length >= 4 => Continuation(b3)
        /\ length >= 3 => Continuation(b2)
        /\ length >= 2 => second
        /\ lead

\* the test of line 294 never failing
IllegalUnitNever(s, k, l, junk) == FALSE

\* line 294: !pg_utf8_islegal(utf, l)
IllegalUnit(s, k, l, junk) == ~pg_utf8_islegal(s, k, l, junk)

\* the packing with the bytes of a unit in the opposite order
PackLittleEndian(s, k, l, junk) ==
    LET b(n) == Char(s, k + n, junk)
    IN  IF l = 1 THEN Word(0, 0, 0, b(0))
        ELSE IF l = 2 THEN Word(0, 0, b(1), b(0))
        ELSE IF l = 3 THEN Word(0, b(2), b(1), b(0))
        ELSE Word(b(3), b(2), b(1), b(0))

\* lines 317-338: iutf from the l bytes at utf.  "*utf++ << 24" shifts a
\* promoted int into the sign bit; gcc and clang define the result as the
\* shifted bit pattern, which the assignment to uint32 iutf keeps.
Pack(s, k, l, junk) ==
    LET b(n) == Char(s, k + n, junk)
    IN  IF l = 1 THEN Word(0, 0, 0, b(0))
        ELSE IF l = 2 THEN Word(0, 0, b(0), b(1))
        ELSE IF l = 3 THEN Word(0, b(0), b(1), b(2))
        ELSE Word(b(0), b(1), b(2), b(3))

\* lines 272-283: the database encoding is checked before anything is read
utf8_to_array_entry ==
    /\ pc = "u2a_entry"
    /\ IF encoding # "PG_UTF8"
       THEN pc' = "error_encoding"
       ELSE pc' = "u2a_count"
    /\ UNCHANGED <<conv, encoding, orig, input, result, allocated, size, count,
                   utf, i, stack, round, first, decomposed>>

\* lines 288-299: one iteration of the counting pass
utf8_to_array_count ==
    /\ pc = "u2a_count"
    /\ \E junk \in JunkBytes :
          /\ Char(input, utf, junk) # 0
          /\ LET l == pg_utf_mblen(Char(input, utf, junk))
             IN  IF IllegalUnit(input, utf, l, junk)
                 THEN /\ pc' = "error_utf8"
                      /\ UNCHANGED <<size, utf>>
                 ELSE /\ size' = size + 1
                      /\ utf' = utf + l
                      /\ UNCHANGED pc
    /\ UNCHANGED <<conv, encoding, orig, input, result, allocated, count, i,
                   stack, round, first, decomposed>>

\* lines 305-308: the counting pass met the terminator; allocate and rewind
utf8_to_array_alloc ==
    /\ pc = "u2a_count"
    /\ \E junk \in JunkBytes : Char(input, utf, junk) = 0
    /\ result' = new_intArrayType(size)
    /\ allocated' = TRUE
    /\ utf' = 0
    /\ count' = 0
    /\ pc' = "u2a_fill"
    /\ UNCHANGED <<conv, encoding, orig, input, size, i, stack, round, first,
                   decomposed>>

\* lines 309-344: one iteration of the filling pass
utf8_to_array_fill ==
    /\ pc = "u2a_fill"
    /\ \E junk \in JunkBytes :
          /\ Char(input, utf, junk) # 0
          /\ LET l == pg_utf_mblen(Char(input, utf, junk))
             IN  IF l \notin 1..4
                 THEN /\ pc' = "error_mblen"
                      /\ UNCHANGED <<result, count, utf>>
                 ELSE IF count >= Len(result)
                 THEN /\ pc' = "heap_overflow"
                      /\ UNCHANGED <<result, count, utf>>
                 ELSE /\ result' = [result EXCEPT ![count + 1] = Pack(input, utf, l, junk)]
                      /\ count' = count + 1
                      /\ utf' = utf + l
                      /\ UNCHANGED pc
    /\ UNCHANGED <<conv, encoding, orig, input, allocated, size, i, stack, round,
                   first, decomposed>>

\* lines 346-348: the filling pass met the terminator
utf8_to_array_return ==
    /\ pc = "u2a_fill"
    /\ \E junk \in JunkBytes : Char(input, utf, junk) = 0
    /\ pc' = "u2a_done"
    /\ UNCHANGED <<conv, encoding, orig, input, result, allocated, size, count,
                   utf, i, stack, round, first, decomposed>>

(***************************************************************************)
(* array_to_utf8.                                                          *)
(***************************************************************************)
\* lines 374-381 and 390-397: each non-zero byte of code, high byte first
\* ("code & 0xff000000" is code[1] # 0, "(char) (code >> 24)" is code[1], ...)
EmittedBytes(code) == SelectSeq(code, LAMBDA b : b # 0)

\* array_to_utf8(utf8_to_array(x)): the returned array is the argument
array_to_utf8_call ==
    /\ pc = "u2a_done"
    /\ round = 1
    /\ first' = result
    /\ input' = result
    /\ result' = <<>>
    /\ allocated' = FALSE
    /\ size' = 0
    /\ count' = 0
    /\ i' = 0
    /\ pc' = "a2u_size"
    /\ UNCHANGED <<conv, encoding, orig, utf, stack, round, decomposed>>

\* lines 370-382: one iteration of the sizing pass
array_to_utf8_size ==
    /\ pc = "a2u_size"
    /\ i < Len(input)
    /\ size' = size + Len(EmittedBytes(input[i + 1]))
    /\ i' = i + 1
    /\ UNCHANGED <<conv, encoding, orig, input, result, allocated, count, utf,
                   stack, pc, round, first, decomposed>>

\* line 385: result = palloc0(size + 1)
array_to_utf8_alloc ==
    /\ pc = "a2u_size"
    /\ i >= Len(input)
    /\ result' = [k \in 1..(size + 1) |-> 0]
    /\ allocated' = TRUE
    /\ i' = 0
    /\ pc' = "a2u_fill"
    /\ UNCHANGED <<conv, encoding, orig, input, size, count, utf, stack, round,
                   first, decomposed>>

\* lines 386-398: one iteration of the filling pass
array_to_utf8_fill ==
    /\ pc = "a2u_fill"
    /\ i < Len(input)
    /\ LET bytes == EmittedBytes(input[i + 1])
       IN  IF count + Len(bytes) > Len(result)
           THEN /\ pc' = "heap_overflow"
                /\ UNCHANGED <<result, count, i>>
           ELSE /\ result' = [k \in 1..Len(result) |->
                                IF k > count /\ k <= count + Len(bytes)
                                THEN bytes[k - count] ELSE result[k]]
                /\ count' = count + Len(bytes)
                /\ i' = i + 1
                /\ UNCHANGED pc
    /\ UNCHANGED <<conv, encoding, orig, input, allocated, size, utf, stack, round,
                   first, decomposed>>

\* cstring_to_text(s): the bytes of s before its first NUL
RECURSIVE cstring_to_text(_)
cstring_to_text(s) ==
    IF s = <<>> \/ Head(s) = 0 THEN <<>> ELSE <<Head(s)>> \o cstring_to_text(Tail(s))

\* lines 399-402: terminate the string and return it as text
array_to_utf8_return ==
    /\ pc = "a2u_fill"
    /\ i >= Len(input)
    /\ IF count >= Len(result)
       THEN /\ pc' = "heap_overflow"
            /\ UNCHANGED result
       ELSE /\ result' = cstring_to_text([result EXCEPT ![count + 1] = 0])
            /\ pc' = "a2u_done"
    /\ UNCHANGED <<conv, encoding, orig, input, allocated, size, count, utf, i,
                   stack, round, first, decomposed>>

\* utf8_to_array(array_to_utf8(utf8_to_array(x))): the text is the next argument
utf8_to_array_again ==
    /\ pc = "a2u_done"
    /\ round = 1
    /\ round' = 2
    /\ input' = result
    /\ result' = <<>>
    /\ allocated' = FALSE
    /\ size' = 0
    /\ count' = 0
    /\ utf' = 0
    /\ pc' = "u2a_entry"
    /\ UNCHANGED <<conv, encoding, orig, i, stack, first, decomposed>>

(***************************************************************************)
(* Specifications.                                                         *)
(***************************************************************************)
SeqsUpTo(S, n) == UNION {[1..k -> S] : k \in 0..n}

\* the code points of the table, as the int4 values an array holds
TableCodes == {SASLPrepConv[k].utf : k \in 1..Len(SASLPrepConv)}

InitPrepare(t) ==
    /\ conv = t
    /\ encoding = "PG_UTF8"
    /\ orig \in SeqsUpTo(TableCodes, MaxLen)
    /\ input = orig
    /\ result = <<>>
    /\ allocated = FALSE
    /\ size = 0
    /\ count = 0
    /\ utf = 0
    /\ i = 0
    /\ stack = <<>>
    /\ pc = "size_pass"
    /\ round = 1
    /\ first = <<>>
    /\ decomposed = <<>>

Init == InitPrepare("SASLPrepConv")

InitIllFormed == InitPrepare("IllFormedConv")

Next ==
    \/ pg_sasl_prepare_size_loop
    \/ get_decomposed_size
    \/ pg_sasl_prepare_alloc
    \/ pg_sasl_prepare_fill_loop
    \/ decompose_code
    \/ pg_sasl_prepare_fill_done
    \/ pg_sasl_prepare_order
    \/ pg_sasl_prepare_return

\* one call of pg_sasl_prepare on the well-formed table
Spec == Init /\ [][Next]_vars

\* one call on the table with a cycle
SpecIllFormed == InitIllFormed /\ [][Next]_vars

NextTwice ==
    \/ Next
    \/ pg_sasl_prepare_again

\* pg_sasl_prepare(pg_sasl_prepare(x)) on the well-formed table
SpecTwice == Init /\ [][NextTwice]_vars

\* bytes the texts handed to utf8_to_array are made of: ASCII, continuation
\* bytes of both halves, the lead bytes of two, three and four byte units,
\* and bytes no legal unit starts with
TextBytes == {\H41, \H85, \HA3, \HC0, \HC3, \HE0, \HED, \HF0, \HFF}

InitCodec ==
    /\ conv = "SASLPrepConv"
    /\ encoding \in {"PG_UTF8", "PG_LATIN1"}
    /\ orig \in SeqsUpTo(TextBytes, MaxBytes)
    /\ input = orig
    /\ result = <<>>
    /\ allocated = FALSE
    /\ size = 0
    /\ count = 0
    /\ utf = 0
    /\ i = 0
    /\ stack = <<>>
    /\ pc = "u2a_entry"
    /\ round = 1
    /\ first = <<>>
    /\ decomposed = <<>>

NextCodec ==
    \/ utf8_to_array_entry
    \/ utf8_to_array_count
    \/ utf8_to_array_alloc
    \/ utf8_to_array_fill
    \/ utf8_to_array_return
    \/ array_to_utf8_call
    \/ array_to_utf8_size
    \/ array_to_utf8_alloc
    \/ array_to_utf8_fill
    \/ array_to_utf8_return
    \/ utf8_to_array_again

\* utf8_to_array(array_to_utf8(utf8_to_array(x))) on a text x
SpecCodec == InitCodec /\ [][NextCodec]_vars

(***************************************************************************)
(* Properties of utf8_to_array and array_to_utf8.                          *)
(***************************************************************************)
\* length of the UTF-8 unit a lead byte announces
UnitLength(b) ==
    CASE b \in 0..127   -> 1
      [] b \in 192..223 -> 2
      [] b \in 224..239 -> 3
      [] b \in 240..247 -> 4
      [] OTHER          -> 1

\* the units of a legally encoded text, each as one word: its bytes in text
\* order in the low bytes of the word, zero above them
RECURSIVE PackedUnits(_)
PackedUnits(s) ==
    IF s = <<>> THEN <<>>
    ELSE LET l == UnitLength(Head(s))
         IN  <<[k \in 1..4 |-> IF k <= 4 - l THEN 0 ELSE s[k - (4 - l)]]>>
               \o PackedUnits(SubSeq(s, l + 1, Len(s)))

\* offset of the first illegally encoded unit of s at or after offset k, -1 if none
RECURSIVE FirstIllegal(_, _)
FirstIllegal(s, k) ==
    IF k >= Len(s) THEN -1
    ELSE IF ~pg_utf8_islegal(s, k, pg_utf_mblen(s[k + 1]), 0) THEN k
    ELSE FirstIllegal(s, k + pg_utf_mblen(s[k + 1]))

\* C4: for a legally encoded text, utf8_to_array packs each unit big-endian
\* into one integer, array_to_utf8 of that array is the text byte for byte,
\* and utf8_to_array of that text is the array again.
C4_RoundTrip ==
    /\ (pc = "u2a_done" /\ round = 1) => result = PackedUnits(orig)
    /\ pc = "a2u_done" => result = orig
    /\ (pc = "u2a_done" /\ round = 2) => result = first

\* the second decoding of a text holding a four-byte unit has returned
C4_Witness ==
    /\ pc = "u2a_done"
    /\ round = 2
    /\ Len(orig) > Len(result)
    /\ \E k \in 1..Len(result) : result[k][1] # 0

\* C6: a text with an illegally encoded unit makes utf8_to_array raise its
\* error in the counting pass, at that unit: nothing is allocated or written.
C6_NoPartialResult ==
    (encoding = "PG_UTF8" /\ round = 1 /\ FirstIllegal(orig, 0) >= 0) =>
        /\ pc \in {"u2a_entry", "u2a_count", "error_utf8"}
        /\ ~allocated
        /\ result = <<>>
        /\ utf <= FirstIllegal(orig, 0)
        /\ pc = "error_utf8" => utf = FirstIllegal(orig, 0)

\* the error raised at a lone continuation byte that follows legal units
C6_Witness ==
    /\ pc = "error_utf8"
    /\ size >= 2
    /\ utf >= 3
    /\ Continuation(Char(orig, utf, 0))
    /\ ~allocated

(***************************************************************************)
(* Properties of pg_sasl_prepare.                                          *)
(***************************************************************************)
\* the table row of a code point, found by its key alone
RowOf(code) == table[CHOOSE k \in 1..Len(table) : table[k].utf = code]

Class(code) == RowOf(code).class

Terminal(code) == RowOf(code).codes[1] = Zero

\* positions a..b of seq hold no starter
SameRun(seq, a, b) == \A k \in a..b : Class(seq[k]) # 0

\* a..b is a maximal run of non-starters of seq
MaximalRun(seq, a, b) ==
    /\ a <= b
    /\ SameRun(seq, a, b)
    /\ (a = 1 \/ Class(seq[a - 1]) = 0)
    /\ (b = Len(seq) \/ Class(seq[b + 1]) = 0)

\* within every run the combining classes never decrease
RunsOrdered(seq) ==
    \A a, b \in 1..Len(seq) :
        (a < b /\ SameRun(seq, a, b)) => Class(seq[a]) <= Class(seq[b])

\* the decomposition of section 4.2: the terminal code points of a code point
RECURSIVE decompose(_)
RECURSIVE decomposeCodes(_, _)
decompose(code) ==
    IF Terminal(code) THEN <<code>> ELSE decomposeCodes(RowOf(code).codes, 1)

decomposeCodes(codes, k) ==
    IF k > Len(codes) \/ codes[k] = Zero THEN <<>>
    ELSE decompose(codes[k]) \o decomposeCodes(codes, k + 1)

\* the decompositions of seq[k..], concatenated
RECURSIVE decomposeAll(_, _)
decomposeAll(seq, k) ==
    IF k > Len(seq) THEN <<>> ELSE decompose(seq[k]) \o decomposeAll(seq, k + 1)

HasDistinctEqualClassPair(seq) ==
    \E a, b \in 1..Len(seq) :
        a < b /\ SameRun(seq, a, b) /\ seq[a] # seq[b] /\ Class(seq[a]) = Class(seq[b])

\* C1: in the array pg_sasl_prepare returns, every run of non-starters
\* (bounded by starters or by the ends) has non-decreasing combining classes.
C1_RunsOrdered == pc = "done" => RunsOrdered(result)

\* a call that decomposed something, reordered, and returned a run of three classes
C1_Witness ==
    /\ pc = "done"
    /\ round = 1
    /\ Len(decomposed) > Len(orig)
    /\ result # decomposed
    /\ \E a \in 1..(Len(result) - 2) :
          /\ SameRun(result, a, a + 2)
          /\ Class(result[a]) < Class(result[a + 1])
          /\ Class(result[a + 1]) < Class(result[a + 2])

\* C2: the ordering pass is a stable sort of each maximal run of non-starters:
\* same length, every starter at the index it had, each run holding the same
\* code points sorted by class, equal classes in their original order.
C2_StableRunSort ==
    pc = "done" =>
        /\ Len(result) = Len(decomposed)
        /\ \A k \in 1..Len(decomposed) :
              Class(decomposed[k]) = 0 => result[k] = decomposed[k]
        /\ \A a, b \in 1..Len(decomposed) :
              MaximalRun(decomposed, a, b) =>
                  /\ MaximalRun(result, a, b)
                  /\ \A x, y \in a..b :
                        x < y => Class(result[x]) <= Class(result[y])
                  /\ \A c \in {Class(decomposed[k]) : k \in a..b} :
                        SelectSeq(SubSeq(result, a, b), LAMBDA x : Class(x) = c)
                          = SelectSeq(SubSeq(decomposed, a, b), LAMBDA x : Class(x) = c)

\* a reordered array with a starter and with two different marks of one class in a run
C2_Witness ==
    /\ pc = "done"
    /\ result # decomposed
    /\ \E k \in 1..Len(result) : Class(result[k]) = 0
    /\ HasDistinctEqualClassPair(result)

\* C3: pg_sasl_prepare applied to its own result returns that result.
C3_Idempotent == (pc = "done" /\ round = 2) => result = first

\* the second call has returned, and the first one had decomposed and reordered
C3_Witness ==
    /\ pc = "done"
    /\ round = 2
    /\ Len(first) > Len(orig)
    /\ \E k \in 1..(Len(orig) - 1) :
          Class(orig[k]) > Class(orig[k + 1]) /\ Class(orig[k + 1]) # 0

\* C5: every code point decompose_code has written is terminal.
C5_WrittenTerminal ==
    /\ pc = "fill_pass" =>
          \A k \in 1..Len(result) : k <= size => Terminal(result[k])
    /\ pc \in {"order_pass", "done"} =>
          \A k \in 1..Len(result) : Terminal(result[k])

\* a write made three calls deep, seen from the frame of U+01FA
C5_Witness ==
    /\ pc = "fill_pass"
    /\ Len(stack) = 2
    /\ stack[1].code = ARingAcute
    /\ stack[2].code = ARing
    /\ size >= 1
    /\ result[size] = LatinA

\* inverted pairs: two positions of one run whose classes decrease left to right
Inversions(seq) ==
    LET class == [k \in 1..Len(seq) |-> Class(seq[k])]
    IN  Cardinality({p \in (1..Len(seq)) \X (1..Len(seq)) :
                        /\ p[1] < p[2]
                        /\ class[p[1]] > class[p[2]]
                        /\ \A k \in p[1]..p[2] : class[k] # 0})

\* what is left of the ordering loop
Variant ==
    IF pc = "order_pass"
    THEN 2 * Inversions(result) + (Len(result) - count) + 2
    ELSE 0

\* C7: the ordering loop terminates, and every comparison reads positions
\* count - 1 and count inside the array.  Variant is a natural number (count
\* stays at or below Len(result) + 1) that every iteration makes smaller.
C7_OrderTerminates ==
    /\ [](pc = "order_pass" => (count >= 1 /\ count <= Len(result) + 1))
    /\ [](pc = "done" => (count >= Len(result) /\ count <= Len(result) + 1))
    /\ [][pc = "order_pass" => Variant' < Variant]_vars

\* the loop has stepped back after an exchange at an index above 1 and gone on to return
C7_Witness ==
    /\ pc = "done"
    /\ Len(result) >= 3
    /\ \E k \in 2..(Len(decomposed) - 1) :
          /\ SameRun(decomposed, k - 1, k + 1)
          /\ Class(decomposed[k - 1]) <= Class(decomposed[k])
          /\ Class(decomposed[k - 1]) > Class(decomposed[k + 1])

\* inverted adjacent pairs: neighbours, both non-starters, whose classes decrease
AdjacentInversions(seq) ==
    Cardinality({k \in 2..Len(seq) :
                    /\ Class(seq[k - 1]) # 0
                    /\ Class(seq[k]) # 0
                    /\ Class(seq[k - 1]) > Class(seq[k])})

\* C8 as stated: every exchange makes the number of inverted adjacent pairs smaller.
C8_AdjacentInversionsDecrease ==
    [][(pc = "order_pass" /\ result' # result) =>
           AdjacentInversions(result') < AdjacentInversions(result)]_vars

\* C8 amended: every exchange makes the number of inverted pairs smaller, an
\* inverted pair being two positions of one run, adjacent or not, whose classes
\* decrease from left to right.
C8_InversionsDecrease ==
    [][(pc = "order_pass" /\ result' # result) =>
           Inversions(result') < Inversions(result)]_vars

\* an exchange has just been made
C8_Witness ==
    /\ pc = "order_pass"
    /\ result # decomposed
    /\ Inversions(result) < Inversions(decomposed)

\* C9: on a table with a cycle the recursion stops at an explicit maximum
\* depth with an ill-formed-table error; the stack is never exhausted.
C9_DepthBounded == pc # "stack_overflow"

\* the decompositions of the input code points, concatenated in input order
Expected == decomposeAll(input, 1)

\* C10: the array is allocated with the total decomposed size, every write
\* lands below that size at a cursor that grows by one per write, the cursor
\* ends at the size, and the filled array is the concatenation of the
\* decompositions of the input code points.
C10_TwoPassesAgree ==
    /\ [](pc # "heap_overflow")
    /\ [](pc = "fill_pass" =>
            /\ Len(result) = Len(Expected)
            /\ size <= Len(result)
            /\ \A k \in 1..Len(result) :
                  result[k] = IF k <= size THEN Expected[k] ELSE Zero)
    /\ [](pc = "order_pass" => (size = Len(decomposed) /\ decomposed = Expected))
    /\ [][pc = "fill_pass" =>
            \/ (size' = size /\ result' = result)
            \/ /\ size' = size + 1
               /\ size < Len(result)
               /\ \A k \in 1..Len(result) : k # size + 1 => result'[k] = result[k]]_vars

\* the last write of a fill pass that decomposed two levels deep
C10_Witness ==
    /\ pc = "fill_pass"
    /\ stack = <<>>
    /\ count = Len(input)
    /\ size = Len(result)
    /\ size > Len(input) + 1
    /\ \E k \in 1..Len(input) : input[k] = ARingAcute

====
